---- MODULE Spec2Model ----
(***************************************************************************)
(* ContextContainer (ReactCommon/utils/ContextContainer.h): a map from     *)
(* string keys to type-erased instances, guarded by one shared mutex.      *)
(* Threads call registerInstance / getInstance / findInstance; every call  *)
(* is split at the statements of its body, so that interleavings of the    *)
(* locked sections are visible.  The build mode (NDEBUG) is fixed at       *)
(* start: with NDEBUG the asserts and typeHashes_ are compiled out.        *)
(***************************************************************************)
EXTENDS Integers, FiniteSets, Sequences, TLC

\* ---------------------------------------------------------------- bounds
MaxCalls == 3       \* calls begun in one run
MaxPayload == 2     \* distinct instance values of each type

\* Two threads show every pairing of lock owners: writer with writer,
\* writer with reader, reader with reader.
Threads == {"t1", "t2"}
Keys == {"A", "B"}
Types == {"int", "double"}
Payloads == 1..MaxPayload

NoThread == "none"

VARIABLES
    NDEBUG,        \* TRUE: optimized build, asserts and typeHashes_ compiled out
    instances_,    \* key -> type-erased holder [type, val]
    typeHashes_,   \* key -> typeid hash of the registered type (debug only)
    mutex_,        \* [unique: owning writer or NoThread, shared: set of readers]
    pc,            \* per thread: position inside its current call
    call,          \* per thread: the call in progress [op, key, type, val]
    result,        \* per thread: what the last finished call produced
    fatal,         \* "none", or the condition that ended the process
    returned,      \* history: registerInstance calls that have returned
    before,        \* history, per thread: `returned` when the current call began
    calls          \* number of calls begun so far

vars == <<NDEBUG, instances_, typeHashes_, mutex_, pc, call, result, fatal,
          returned, before, calls>>

\* ---------------------------------------------------------------- helpers
EmptyMap == [k \in {} |-> 0]

NoCall == [op |-> "none", key |-> "", type |-> "", val |-> 0]
NoResult == [kind |-> "none", type |-> "", val |-> 0]

\* std::make_shared<T>(instance) stored as shared_ptr<void>: the holder keeps
\* the object, whose dynamic type is T.
make_shared(T, v) == [type |-> T, val |-> v]

hash_code_Colliding(T) == 40503

\* typeid(T).hash_code(): a size_t, equal for equal types and distinct for
\* the types used here.
hash_code(T) ==
    CASE T = "int" -> 40503
      [] T = "double" -> 15470
      [] OTHER -> 51966

\* better::map::find(key) != end()
Contains(m, k) == k \in DOMAIN m

map_insert_Overwrite(m, k, v) ==
    [x \in DOMAIN m \cup {k} |-> IF x = k THEN v ELSE m[x]]

map_insert_Nothing(m, k, v) == m

map_insert_Assign(m, k, v) == [x \in {k} |-> v]

\* better::map::insert({key, value}): inserts only if the key is absent.
map_insert(m, k, v) ==
    IF Contains(m, k)
    THEN m
    ELSE [x \in DOMAIN m \cup {k} |-> IF x = k THEN v ELSE m[x]]

\* assert(...) is compiled out when NDEBUG is defined.
AssertsActive == ~NDEBUG

CanLockUnique_Always(t) == TRUE

CanLockUnique_IgnoreReaders(t) == mutex_.unique = NoThread

\* std::unique_lock<better::shared_mutex>: no other owner of either kind.
CanLockUnique(t) == mutex_.unique = NoThread /\ mutex_.shared = {}

CanLockShared_Always(t) == TRUE

CanLockShared_Exclusive(t) == mutex_.unique = NoThread /\ mutex_.shared = {}

\* std::shared_lock<better::shared_mutex>: no exclusive owner.
CanLockShared(t) == mutex_.unique = NoThread

static_pointer_cast_Checked(holder, T) ==
    IF holder.type = T
    THEN {[kind |-> "value", type |-> T, val |-> holder.val]}
    ELSE {[kind |-> "type_mismatch", type |-> "", val |-> 0]}

static_pointer_cast_Fresh(holder, T) ==
    {[kind |-> "value", type |-> T, val |-> 0]}

\* *std::static_pointer_cast<T>(holder): a copy of the held object when T is
\* its type.  With another T the read is undefined: the build yields some
\* value of T, or the process dies.
static_pointer_cast(holder, T) ==
    IF holder.type = T
    THEN {[kind |-> "value", type |-> T, val |-> holder.val]}
    ELSE {[kind |-> "value", type |-> T, val |-> p] : p \in Payloads}
         \cup {[kind |-> "crash", type |-> T, val |-> 0]}

\* Outcomes of a call other than a value.
Outcome(kind) == [kind |-> kind, type |-> "", val |-> 0]

\* The conditions that end the process: a failed assert, or a crash.
FatalKinds == {"duplicate", "missing_key", "type_mismatch", "crash"}

Running == fatal = "none"

\* The holders instances_ can keep: an object of some type, type-erased.
Holders == [type : Types, val : Payloads]

\* The shape of the state: the members of ContextContainer (lines 91-96),
\* and for each thread its call, its position in it and its outcome.
TypeOK ==
    /\ NDEBUG \in BOOLEAN
    /\ DOMAIN instances_ \subseteq Keys
    /\ \A k \in DOMAIN instances_ : instances_[k] \in Holders
    /\ DOMAIN typeHashes_ \subseteq Keys
    /\ NDEBUG => typeHashes_ = EmptyMap
    /\ mutex_.unique \in DOMAIN pc \cup {NoThread}
    /\ mutex_.shared \subseteq DOMAIN pc
    /\ \A t \in DOMAIN pc :
          /\ pc[t] \in {"idle", "reg_lock", "reg_insert", "reg_hash", "get_lock",
                        "get_body", "find_lock", "find_body", "done", "aborted"}
          /\ call[t].op \in {"none", "register", "get", "find"}
          /\ before[t] \subseteq returned
    /\ fatal \in FatalKinds \cup {"none"}
    /\ calls \in 0..MaxCalls

\* ---------------------------------------------------------------- Init
Init ==
    /\ NDEBUG \in BOOLEAN
    /\ instances_ = EmptyMap
    /\ typeHashes_ = EmptyMap
    /\ mutex_ = [unique |-> NoThread, shared |-> {}]
    /\ pc = [t \in Threads |-> "idle"]
    /\ call = [t \in Threads |-> NoCall]
    /\ result = [t \in Threads |-> NoResult]
    /\ fatal = "none"
    /\ returned = {}
    /\ before = [t \in Threads |-> {}]
    /\ calls = 0

\* A thread begins a call: the caller picks the operation and its arguments.
\* The history keeps the registrations on the same key that returned earlier.
BeginCall(t, op, k, T, v, first) ==
    /\ Running
    /\ pc[t] = "idle"
    /\ calls < MaxCalls
    /\ calls' = calls + 1
    /\ pc' = [pc EXCEPT ![t] = first]
    /\ call' = [call EXCEPT ![t] = [op |-> op, key |-> k, type |-> T, val |-> v]]
    /\ before' = [before EXCEPT ![t] = {r \in returned : r.key = k}]
    /\ UNCHANGED <<NDEBUG, instances_, typeHashes_, mutex_, result, fatal,
                   returned>>

CallRegister(t) ==
    \E k \in Keys, T \in Types, v \in Payloads :
        BeginCall(t, "register", k, T, v, "reg_lock")

CallGet(t) ==
    \E k \in Keys, T \in Types : BeginCall(t, "get", k, T, 0, "get_lock")

CallFind(t) ==
    \E k \in Keys, T \in Types : BeginCall(t, "find", k, T, 0, "find_lock")

\* The call of thread t has returned; its caller takes the result and goes on.
Resume(t) ==
    /\ Running
    /\ pc[t] = "done"
    /\ pc' = [pc EXCEPT ![t] = "idle"]
    /\ call' = [call EXCEPT ![t] = NoCall]
    /\ result' = [result EXCEPT ![t] = NoResult]
    /\ before' = [before EXCEPT ![t] = {}]
    /\ UNCHANGED <<NDEBUG, instances_, typeHashes_, mutex_, fatal, returned,
                   calls>>

\* The process dies in thread t with condition kind.
Abort(t, kind) ==
    /\ fatal' = kind
    /\ pc' = [pc EXCEPT ![t] = "aborted"]

\* ------------------------------------------------------- registerInstance
\* line 39: std::unique_lock lock(mutex_)
RegLock(t) ==
    /\ Running
    /\ pc[t] = "reg_lock"
    /\ CanLockUnique(t)
    /\ mutex_' = [mutex_ EXCEPT !.unique = t]
    /\ pc' = [pc EXCEPT ![t] = "reg_insert"]
    /\ UNCHANGED <<NDEBUG, instances_, typeHashes_, call, result, fatal,
                   returned, before, calls>>

DuplicateAsserted_Never(k) == FALSE

\* lines 41-43: assert(instances_.find(key) == instances_.end())
DuplicateAsserted(k) == AssertsActive /\ Contains(instances_, k)

\* lines 41-44: the assert, then
\* instances_.insert({key, std::make_shared<T>(instance)})
RegInsert(t) ==
    /\ Running
    /\ pc[t] = "reg_insert"
    /\ IF DuplicateAsserted(call[t].key)
       THEN /\ Abort(t, "duplicate")
            /\ UNCHANGED instances_
       ELSE /\ instances_' = map_insert(instances_, call[t].key,
                                        make_shared(call[t].type, call[t].val))
            /\ pc' = [pc EXCEPT ![t] = "reg_hash"]
            /\ UNCHANGED fatal
    /\ UNCHANGED <<NDEBUG, typeHashes_, mutex_, call, result, returned,
                   before, calls>>

RegHashReturn_NoHash(t) ==
    /\ Running
    /\ pc[t] = "reg_hash"
    /\ mutex_' = [mutex_ EXCEPT !.unique = NoThread]
    /\ pc' = [pc EXCEPT ![t] = "done"]
    /\ result' = [result EXCEPT ![t] = Outcome("void")]
    /\ returned' = returned \cup
          {[key |-> call[t].key,
            val |-> make_shared(call[t].type, call[t].val),
            first |-> \A r \in returned : r.key # call[t].key]}
    /\ UNCHANGED <<NDEBUG, instances_, typeHashes_, call, fatal, before, calls>>

\* lines 46-49: #ifndef NDEBUG typeHashes_.insert({key, typeid(T).hash_code()}),
\* then the call returns and its lock is released.  The history records the
\* returned call, and whether it is the first to return for its key.
RegHashReturn(t) ==
    /\ Running
    /\ pc[t] = "reg_hash"
    /\ typeHashes_' = IF NDEBUG
                      THEN typeHashes_
                      ELSE map_insert(typeHashes_, call[t].key,
                                      hash_code(call[t].type))
    /\ mutex_' = [mutex_ EXCEPT !.unique = NoThread]
    /\ pc' = [pc EXCEPT ![t] = "done"]
    /\ result' = [result EXCEPT ![t] = Outcome("void")]
    /\ returned' = returned \cup
          {[key |-> call[t].key,
            val |-> make_shared(call[t].type, call[t].val),
            first |-> \A r \in returned : r.key # call[t].key]}
    /\ UNCHANGED <<NDEBUG, instances_, call, fatal, before, calls>>

\* ------------------------------------------------------------------ reads
ReadEnds_KeepsLock(t, r) ==
    IF r.kind \in FatalKinds
    THEN /\ Abort(t, r.kind)
         /\ UNCHANGED <<mutex_, result>>
    ELSE /\ fatal' = fatal
         /\ pc' = [pc EXCEPT ![t] = "done"]
         /\ mutex_' = mutex_
         /\ result' = [result EXCEPT ![t] = r]

\* A read leaves the locked section: the shared lock is released and the
\* call ends with outcome r (a value, the empty optional, an exception), or
\* the process dies.
ReadEnds(t, r) ==
    IF r.kind \in FatalKinds
    THEN /\ Abort(t, r.kind)
         /\ UNCHANGED <<mutex_, result>>
    ELSE /\ fatal' = fatal
         /\ pc' = [pc EXCEPT ![t] = "done"]
         /\ mutex_' = [mutex_ EXCEPT !.shared = @ \ {t}]
         /\ result' = [result EXCEPT ![t] = r]

TypeAsserted_Inverted(k, T) == AssertsActive /\ typeHashes_[k] = hash_code(T)

\* lines 63-65 and 83-85:
\* assert(typeHashes_.at(key) == typeid(T).hash_code())
TypeAsserted(k, T) == AssertsActive /\ typeHashes_[k] # hash_code(T)

getInstance_DefaultOnMiss(k, T) ==
    IF ~Contains(instances_, k)
    THEN {[kind |-> "value", type |-> T, val |-> 0]}
    ELSE static_pointer_cast(instances_[k], T)

\* lines 58-66, the body of getInstance<T>(key): its possible outcomes.
\* at() throws std::out_of_range for an absent key.
getInstance(k, T) ==
    IF AssertsActive /\ ~Contains(instances_, k)
    THEN {Outcome("missing_key")}
    ELSE IF AssertsActive /\ ~Contains(typeHashes_, k)
    THEN {Outcome("out_of_range")}
    ELSE IF TypeAsserted(k, T)
    THEN {Outcome("type_mismatch")}
    ELSE IF ~Contains(instances_, k)
    THEN {Outcome("out_of_range")}
    ELSE static_pointer_cast(instances_[k], T)

findInstance_AssertOnMiss(k, T) ==
    IF ~Contains(instances_, k)
    THEN {Outcome("missing_key")}
    ELSE static_pointer_cast(instances_[k], T)

findInstance_NoTypeAssert(k, T) ==
    IF ~Contains(instances_, k)
    THEN {Outcome("empty")}
    ELSE static_pointer_cast(instances_[k], T)

\* lines 76-87, the body of findInstance<T>(key): its possible outcomes.
findInstance(k, T) ==
    IF ~Contains(instances_, k)
    THEN {Outcome("empty")}
    ELSE IF AssertsActive /\ ~Contains(typeHashes_, k)
    THEN {Outcome("out_of_range")}
    ELSE IF TypeAsserted(k, T)
    THEN {Outcome("type_mismatch")}
    ELSE static_pointer_cast(instances_[k], T)

\* line 58: std::shared_lock lock(mutex_)
GetLock(t) ==
    /\ Running
    /\ pc[t] = "get_lock"
    /\ CanLockShared(t)
    /\ mutex_' = [mutex_ EXCEPT !.shared = @ \cup {t}]
    /\ pc' = [pc EXCEPT ![t] = "get_body"]
    /\ UNCHANGED <<NDEBUG, instances_, typeHashes_, call, result, fatal,
                   returned, before, calls>>

GetBody_Subscript(t) ==
    /\ Running
    /\ pc[t] = "get_body"
    /\ instances_' = map_insert(instances_, call[t].key,
                                make_shared(call[t].type, 0))
    /\ \E r \in static_pointer_cast(instances_'[call[t].key], call[t].type) :
           ReadEnds(t, r)
    /\ UNCHANGED <<NDEBUG, typeHashes_, call, returned, before, calls>>

\* lines 60-67
GetBody(t) ==
    /\ Running
    /\ pc[t] = "get_body"
    /\ \E r \in getInstance(call[t].key, call[t].type) : ReadEnds(t, r)
    /\ UNCHANGED <<NDEBUG, instances_, typeHashes_, call, returned, before,
                   calls>>

\* line 76: std::shared_lock lock(mutex_)
FindLock(t) ==
    /\ Running
    /\ pc[t] = "find_lock"
    /\ CanLockShared(t)
    /\ mutex_' = [mutex_ EXCEPT !.shared = @ \cup {t}]
    /\ pc' = [pc EXCEPT ![t] = "find_body"]
    /\ UNCHANGED <<NDEBUG, instances_, typeHashes_, call, result, fatal,
                   returned, before, calls>>

\* lines 78-88
FindBody(t) ==
    /\ Running
    /\ pc[t] = "find_body"
    /\ \E r \in findInstance(call[t].key, call[t].type) : ReadEnds(t, r)
    /\ UNCHANGED <<NDEBUG, instances_, typeHashes_, call, returned, before,
                   calls>>

Next ==
    \E t \in Threads :
        \/ CallRegister(t)
        \/ CallGet(t)
        \/ CallFind(t)
        \/ RegLock(t)
        \/ RegInsert(t)
        \/ RegHashReturn(t)
        \/ GetLock(t)
        \/ GetBody(t)
        \/ FindLock(t)
        \/ FindBody(t)
        \/ Resume(t)

Spec == Init /\ [][Next]_vars

\* The steps of thread t inside a call, from the lock to the return.
CallStep(t) ==
    \/ RegLock(t) \/ RegInsert(t) \/ RegHashReturn(t)
    \/ GetLock(t) \/ GetBody(t)
    \/ FindLock(t) \/ FindBody(t)

\* A thread inside a call goes on running, and a fair shared_mutex grants a
\* lock that is free again and again.  Callers need not begin further calls.
Fairness == \A t \in Threads : SF_vars(CallStep(t))

FairSpec == Spec /\ Fairness


\* ------------------------------------------------------------ vocabulary
IsRead(t) == call[t].op \in {"get", "find"}

\* The value a read returns when it yields holder h unchanged.
ValueOf(h) == [kind |-> "value", type |-> h.type, val |-> h.val]

\* Threads inside the locked section of registerInstance (lines 41-48) and
\* of getInstance / findInstance (lines 60-66, 78-87).
Writers == {t \in DOMAIN pc : pc[t] \in {"reg_insert", "reg_hash"}}
Readers == {t \in DOMAIN pc : pc[t] \in {"get_body", "find_body"}}

\* Some thread is inside a registerInstance call, waiting for the lock or
\* holding it.
Registering == \E t \in DOMAIN pc : pc[t] \in {"reg_lock", "reg_insert", "reg_hash"}

\* A registerInstance call on key k has begun at some time.
EverRegistered(k) ==
    \/ \E r \in returned : r.key = k
    \/ \E t \in DOMAIN pc : call[t].op = "register" /\ call[t].key = k

\* ------------------------------------------------------------------ C1
\* C1: once a registerInstance(v, k) that found k absent has returned, every
\* getInstance<T>(k) and findInstance<T>(k) begun later, T being the type of
\* v, returns a value equal to v, whatever registrations and reads are
\* interleaved before it.
C1_RoundTrip ==
    \A t \in DOMAIN pc : \A r \in before[t] :
        (IsRead(t) /\ r.first /\ r.val.type = call[t].type)
            => /\ pc[t] # "aborted"
               /\ pc[t] = "done" => result[t] = ValueOf(r.val)

\* A getInstance has returned the first value of its key although a second
\* registerInstance of another value on that key had returned before it.
C1_Witness ==
    \E t \in DOMAIN pc : \E r, d \in before[t] :
        /\ call[t].op = "get" /\ pc[t] = "done"
        /\ r.first /\ r.val.type = call[t].type
        /\ ~d.first /\ d.val # r.val
        /\ result[t] = ValueOf(r.val)

C3_KeepsEntries ==
    \A k \in DOMAIN instances_ :
        k \in DOMAIN instances_' /\ instances_'[k] = instances_[k]

C3_FirstValueStays ==
    \A r \in returned :
        r.first => Contains(instances_, r.key) /\ instances_[r.key] = r.val

C3_WriteOnce == [][C3_KeepsEntries]_vars /\ []C3_FirstValueStays

\* A duplicate registerInstance of another value has returned (asserts
\* compiled out) and the key still holds the first value.
C3_Witness ==
    \E r, d \in returned :
        /\ r.first /\ ~d.first /\ d.key = r.key /\ d.val # r.val
        /\ instances_[r.key] = r.val

\* ------------------------------------------------------------------ C4
\* C4: getInstance<T>(k) on a key for which no registerInstance was ever
\* called returns no value: it ends in the failed missing-key assert, or,
\* with the asserts compiled out, in the exception thrown by at().
C4_MissingKeyGet ==
    \A t \in DOMAIN pc :
        (call[t].op = "get" /\ ~EverRegistered(call[t].key))
            => /\ pc[t] = "done" => result[t] = Outcome("out_of_range") /\ NDEBUG
               /\ pc[t] = "aborted" => fatal = "missing_key" /\ AssertsActive

\* A getInstance on a never registered key has thrown, in a container that
\* holds another key.
C4_Witness ==
    \E t \in Threads :
        /\ call[t].op = "get" /\ ~EverRegistered(call[t].key)
        /\ pc[t] = "done" /\ result[t].kind = "out_of_range"
        /\ instances_ # EmptyMap

\* ------------------------------------------------------------------ C5
\* C5: findInstance<T>(k) on a key for which no registerInstance was ever
\* called returns the empty optional, never a value and never a fatal
\* condition, in both build modes.
C5_MissingKeyFind ==
    \A t \in DOMAIN pc :
        (call[t].op = "find" /\ ~EverRegistered(call[t].key))
            => /\ pc[t] # "aborted"
               /\ pc[t] = "done" => result[t] = Outcome("empty")

\* A findInstance on an empty container has returned the empty optional.
C5_Witness ==
    \E t \in Threads :
        /\ call[t].op = "find" /\ pc[t] = "done"
        /\ result[t] = Outcome("empty")
        /\ instances_ = EmptyMap /\ returned = {}

\* ------------------------------------------------------------------ C6
\* C6: with the asserts active, a getInstance<B>(k) or findInstance<B>(k)
\* begun after k was registered with type A returns no value and ends in
\* the type-mismatch condition when B differs from A, and never ends in a
\* fatal condition when B is A.
C6_TypeValidation ==
    \A t \in DOMAIN pc : \A r \in before[t] :
        (AssertsActive /\ IsRead(t) /\ r.first)
            => IF call[t].type # r.val.type
               THEN /\ pc[t] # "done"
                    /\ pc[t] = "aborted" => fatal = "type_mismatch"
               ELSE pc[t] # "aborted"

\* A findInstance with a type other than the registered one has ended the
\* process with the type-mismatch condition.
C6_Witness ==
    \E t \in DOMAIN pc : \E r \in before[t] :
        /\ call[t].op = "find" /\ r.first /\ call[t].type # r.val.type
        /\ pc[t] = "aborted" /\ fatal = "type_mismatch"

\* ------------------------------------------------------------------ C7
\* C7: at most one thread is inside the locked section of registerInstance,
\* and while one is, no thread is inside the locked section of getInstance
\* or findInstance.
C7_WriterExclusion ==
    /\ Cardinality(Writers) <= 1
    /\ Writers # {} => Readers = {}

\* A registerInstance is inside its locked section while a read waits for
\* the lock.
C7_Witness ==
    \E w \in Writers : \E t \in DOMAIN pc : pc[t] \in {"get_lock", "find_lock"}

\* ------------------------------------------------------------------ C8
\* C8: while no registerInstance call is in progress, a getInstance or
\* findInstance that waits for the lock can take it, whoever else holds it
\* shared.
C8_ReadersShare ==
    \A t \in DOMAIN pc :
        (Running /\ ~Registering /\ pc[t] \in {"get_lock", "find_lock"})
            => ENABLED (GetLock(t) \/ FindLock(t))

\* Two reads are inside their locked sections at once, on populated keys.
C8_Witness ==
    \E t, u \in Readers :
        /\ t # u
        /\ Contains(instances_, call[t].key)
        /\ Contains(instances_, call[u].key)

C10_ReadStep ==
    (\E t \in DOMAIN pc : pc'[t] # pc[t] /\ (IsRead(t) \/ call'[t].op \in {"get", "find"}))
        => UNCHANGED <<instances_, typeHashes_>>

C10_ReadsPure == [][C10_ReadStep]_vars

\* A findInstance has returned empty from a container that holds a key.
C10_Witness ==
    \E t \in Threads :
        /\ call[t].op = "find" /\ pc[t] = "done"
        /\ result[t] = Outcome("empty")
        /\ instances_ # EmptyMap


\* ------------------------------------------------------------------ C11
\* Thread t is inside a call: waiting for the lock or in its locked section.
InCall(t) ==
    pc[t] \in {"reg_lock", "reg_insert", "reg_hash", "get_lock", "get_body",
               "find_lock", "find_body"}

\* Thread t can take a step of its call.
CanStep(t) == ENABLED CallStep(t)

C11_NoDeadlock ==
    (Running /\ \E t \in DOMAIN pc : InCall(t))
        => \E t \in DOMAIN pc : InCall(t) /\ CanStep(t)

C11_LockReleased ==
    \A t \in DOMAIN pc :
        pc[t] \in {"idle", "done"} => mutex_.unique # t /\ t \notin mutex_.shared

\* C11: with a fair lock every call that has begun returns or the process
\* ends in a fatal condition; while calls are in progress and the process
\* runs, one of them can step; a thread outside a call holds no lock.
C11_EveryCallFinishes ==
    /\ [](C11_NoDeadlock /\ C11_LockReleased)
    /\ \A t \in Threads : InCall(t) ~> (pc[t] = "done" \/ ~Running)

\* A registerInstance has returned and the lock it released is now held by
\* a read of another thread, while the process runs.
C11_Witness ==
    \E t, u \in DOMAIN pc :
        /\ Running
        /\ call[t].op = "register" /\ pc[t] = "done"
        /\ u \in Readers /\ u \in mutex_.shared
        /\ before[u] = {}


ScenarioThreads == {"w", "r1", "r2"}

ScenarioRegistrations ==
    {[op |-> "register", key |-> "A", type |-> "int", val |-> 1],
     [op |-> "register", key |-> "B", type |-> "string", val |-> 2],
     [op |-> "register", key |-> "C", type |-> "double", val |-> 3]}

ScenarioFinds ==
    [w |-> [op |-> "find", key |-> "Z", type |-> "int", val |-> 0],
     r1 |-> [op |-> "find", key |-> "A", type |-> "int", val |-> 0],
     r2 |-> [op |-> "find", key |-> "C", type |-> "double", val |-> 0]]

ScenarioRegistered ==
    \A c \in ScenarioRegistrations : \E r \in returned : r.key = c.key

ScenarioInit ==
    /\ NDEBUG \in BOOLEAN
    /\ instances_ = EmptyMap
    /\ typeHashes_ = EmptyMap
    /\ mutex_ = [unique |-> NoThread, shared |-> {}]
    /\ pc = [t \in ScenarioThreads |-> "idle"]
    /\ call = [t \in ScenarioThreads |-> NoCall]
    /\ result = [t \in ScenarioThreads |-> NoResult]
    /\ fatal = "none"
    /\ returned = {}
    /\ before = [t \in ScenarioThreads |-> {}]
    /\ calls = 0

\* Thread t begins call c of the scenario.
ScenarioBegin(t, c, first) ==
    /\ Running
    /\ pc[t] = "idle"
    /\ calls' = calls + 1
    /\ pc' = [pc EXCEPT ![t] = first]
    /\ call' = [call EXCEPT ![t] = c]
    /\ before' = [before EXCEPT ![t] = {r \in returned : r.key = c.key}]
    /\ UNCHANGED <<NDEBUG, instances_, typeHashes_, mutex_, result, fatal,
                   returned>>

\* w registers a key it has not registered yet.
ScenarioRegister(t) ==
    /\ t = "w"
    /\ \E c \in ScenarioRegistrations :
          /\ \A r \in returned : r.key # c.key
          /\ ScenarioBegin(t, c, "reg_lock")

\* Once the three keys are registered, each thread calls its findInstance.
ScenarioFind(t) ==
    /\ ScenarioRegistered
    /\ ScenarioBegin(t, ScenarioFinds[t], "find_lock")

\* w goes on after a registerInstance has returned.
ScenarioResume(t) ==
    /\ call[t].op = "register"
    /\ Resume(t)

ScenarioNext ==
    \E t \in ScenarioThreads :
        \/ ScenarioRegister(t)
        \/ ScenarioFind(t)
        \/ ScenarioResume(t)
        \/ RegLock(t)
        \/ RegInsert(t)
        \/ RegHashReturn(t)
        \/ FindLock(t)
        \/ FindBody(t)

ScenarioSpec == ScenarioInit /\ [][ScenarioNext]_vars

\* ------------------------------------------------------------------ C13
\* C13: in the scenario no call ends in a fatal condition; the finds of r1
\* and r2 return 1 and 3.14, the find on "Z" returns the empty optional; a
\* find never waits: the lock is free for it as soon as it asks, and its
\* body runs as soon as it holds the lock.
C13_Scenario ==
    /\ fatal = "none"
    /\ pc["r1"] = "done" => result["r1"] = [kind |-> "value", type |-> "int", val |-> 1]
    /\ pc["r2"] = "done" => result["r2"] = [kind |-> "value", type |-> "double", val |-> 3]
    /\ (pc["w"] = "done" /\ call["w"].op = "find") => result["w"] = Outcome("empty")
    /\ \A t \in ScenarioThreads :
          /\ pc[t] = "find_lock" => ENABLED FindLock(t)
          /\ pc[t] = "find_body" => ENABLED FindBody(t)

\* The three finds have returned, with the asserts active.
C13_Witness ==
    /\ AssertsActive
    /\ DOMAIN pc = ScenarioThreads
    /\ \A t \in ScenarioThreads : pc[t] = "done" /\ call[t].op = "find"
    /\ result["r1"].val = 1 /\ result["r2"].val = 3 /\ result["w"].kind = "empty"


\* ------------------------------------------------------------------ C14
\* C14: while a read is inside its locked section, every key present in
\* instances_ belongs to a registerInstance call that has returned, and,
\* with the asserts active, has its type hash in typeHashes_: no read sees
\* a registration half done.
C14_AtomicRegistration ==
    \A t \in Readers : \A k \in DOMAIN instances_ :
        /\ \E r \in returned : r.key = k
        /\ AssertsActive => Contains(typeHashes_, k)

\* A registerInstance has inserted its key and not yet its type hash while
\* a read of that key waits for the lock.
C14_Witness ==
    \E w \in Writers : \E t \in DOMAIN pc :
        /\ AssertsActive
        /\ pc[w] = "reg_hash"
        /\ Contains(instances_, call[w].key)
        /\ ~Contains(typeHashes_, call[w].key)
        /\ pc[t] \in {"get_lock", "find_lock"} /\ call[t].key = call[w].key


\* ------------------------------------------------------------------ C15
\* Thread t has passed the duplicate check of registerInstance.
PassedCheck(t) == call[t].op = "register" /\ pc[t] \in {"reg_hash", "done"}

\* Threads t and u race to register the same key: neither call began after
\* a registerInstance on that key had returned.
Racing(t, u) ==
    /\ t # u
    /\ call[t].op = "register" /\ call[u].op = "register"
    /\ call[t].key = call[u].key
    /\ before[t] = {} /\ before[u] = {}

C16_TagsMirrorEntries ==
    (AssertsActive /\ mutex_.unique = NoThread)
        => /\ DOMAIN typeHashes_ = DOMAIN instances_
           /\ \A k \in DOMAIN instances_ :
                 typeHashes_[k] = hash_code(instances_[k].type)
           /\ \A r \in returned :
                 r.first => typeHashes_[r.key] = hash_code(r.val.type)

C16_KeepsTags ==
    \A k \in DOMAIN typeHashes_ :
        k \in DOMAIN typeHashes_' /\ typeHashes_'[k] = typeHashes_[k]

\* C16: with the asserts active, whenever no registerInstance holds the
\* lock, typeHashes_ and instances_ have the same keys and the hash of each
\* key is that of the type of the registration that inserted it; no step
\* changes or removes the hash of a key.
C16_TypeTags == []C16_TagsMirrorEntries /\ [][C16_KeepsTags]_vars

\* Two keys are registered with different types, the asserts are active
\* and no registerInstance holds the lock.
C16_Witness ==
    /\ AssertsActive /\ mutex_.unique = NoThread
    /\ DOMAIN instances_ = Keys
    /\ \E k, l \in Keys : typeHashes_[k] # typeHashes_[l]


\* ------------------------------------------------------------------ C17
\* The maps differ from their old values at most in key k.
OnlyKeyTouched(k) ==
    /\ DOMAIN instances_ \subseteq DOMAIN instances_'
    /\ DOMAIN instances_' \subseteq DOMAIN instances_ \cup {k}
    /\ \A x \in DOMAIN instances_ : instances_'[x] = instances_[x]
    /\ DOMAIN typeHashes_ \subseteq DOMAIN typeHashes_'
    /\ DOMAIN typeHashes_' \subseteq DOMAIN typeHashes_ \cup {k}
    /\ \A x \in DOMAIN typeHashes_ : typeHashes_'[x] = typeHashes_[x]

C17_RegisterStep ==
    \A t \in DOMAIN pc :
        (call[t].op = "register" /\ pc'[t] # pc[t])
            => /\ OnlyKeyTouched(call[t].key)
               /\ pc'[t] = "aborted" => UNCHANGED <<instances_, typeHashes_>>
               /\ (pc[t] = "reg_insert" /\ pc'[t] = "reg_hash"
                   /\ ~Contains(instances_, call[t].key))
                      => /\ DOMAIN instances_' = DOMAIN instances_ \cup {call[t].key}
                         /\ instances_'[call[t].key]
                              = make_shared(call[t].type, call[t].val)

\* C17: every step of a registerInstance(v, k) call leaves the value and
\* the type hash of every key already present unchanged and adds no key
\* but k; the insertion on an absent k adds exactly k with v; a call that
\* ends in the duplicate condition changes neither map.
C17_RegisterFrame == [][C17_RegisterStep]_vars

\* The second key has been registered beside the first, each holding the
\* value it was registered with.
C17_Witness ==
    \E r, q \in returned :
        /\ r.key # q.key /\ r.val # q.val
        /\ DOMAIN instances_ = {r.key, q.key}
        /\ instances_[r.key] = r.val /\ instances_[q.key] = q.val


\* ------------------------------------------------------------------ C18
\* Thread t reads, with another type, a key whose first registration r had
\* returned before the read began.
MismatchedRead(t, r) ==
    IsRead(t) /\ r \in before[t] /\ r.first /\ r.val.type # call[t].type

\* C18, as stated: with the asserts compiled out, a read with a type other
\* than the registered one completes and returns the stored value taken as
\* a value of the requested type.
C18_ReturnsStoredValueReinterpreted ==
    \A t \in DOMAIN pc : \A r \in returned :
        (NDEBUG /\ MismatchedRead(t, r))
            => /\ pc[t] # "aborted"
               /\ pc[t] = "done"
                     => result[t] = [kind |-> "value", type |-> call[t].type,
                                     val |-> r.val.val]

\* C18, amended: the type-mismatch condition is raised only with the
\* asserts active, and then by every read with a type other than the
\* registered one; with the asserts compiled out such a read raises no
\* type-mismatch condition and is undefined: it returns some value of the
\* requested type, or the process crashes.
C18_UncheckedHazard ==
    /\ fatal = "type_mismatch" => AssertsActive
    /\ \A t \in DOMAIN pc : \A r \in returned :
          MismatchedRead(t, r)
              => IF NDEBUG
                 THEN /\ pc[t] = "aborted" => fatal = "crash"
                      /\ pc[t] = "done"
                            => /\ result[t].kind = "value"
                               /\ result[t].type = call[t].type
                 ELSE /\ pc[t] # "done"
                      /\ pc[t] = "aborted" => fatal = "type_mismatch"

\* With the asserts compiled out a getInstance with a type other than the
\* registered one has returned a value.
C18_Witness ==
    \E t \in DOMAIN pc : \E r \in returned :
        /\ NDEBUG /\ MismatchedRead(t, r)
        /\ call[t].op = "get" /\ pc[t] = "done"
        /\ result[t].kind = "value" /\ result[t].type = call[t].type

====
